---- MODULE Spec2Model ----
(***************************************************************************)
(* State machine of src/src/App.js: the App component's state hooks and     *)
(* refs, its three effects (market-hours sampling, history fetch, socket),  *)
(* the tick handler onTick and the pure function cleanData.                 *)
(*                                                                          *)
(* Prices are integers counting steps of 0.0005, so the code's 0.001 is     *)
(* Eps = 2.  A record's timestamp is a raw value as delivered (a string or  *)
(* a number in the code); getTime is what new Date(raw).getTime() makes of  *)
(* it.  NaN and undefined are the sentinels NaN and NoPrice, and arithmetic *)
(* on them follows JavaScript (Sub, AbsLt).                                 *)
(***************************************************************************)
EXTENDS Integers, Sequences, FiniteSets, TLC

\* ------------------------------------------------------------------ bounds
\* Longest historical batch the endpoint returns.
MaxBatch == 2
\* Longest series a tick may still grow (guard of Deliver).
MaxLen == 2
\* Most history requests in flight at once (guard of Select).
MaxInFlight == 2

\* ------------------------------------------------------- values and inputs
\* The value of an invalid Date's getTime() and of arithmetic on undefined.
NaN == -1000
\* A record without a price field: trade.price is undefined.
NoPrice == -1
\* Math.abs(...) < 0.001, in steps of 0.0005.
Eps == 2

\* Two of the four symbols of INITIAL_STOCKS; the first is the initial selection.
INITIAL_STOCKS == <<"HDFCBANK.NS", "SBIN.NS">>
Symbols == {INITIAL_STOCKS[i] : i \in 1..Len(INITIAL_STOCKS)}

\* Raw timestamps as delivered; raw 0 does not parse.
RawTimestamps == {0, 1, 2, 3}
\* 50.0000, 50.0005 (closer than 0.001 to the first) and 50.0015.
PriceLevels == {100, 101, 103}

\* A record of a historical batch or a stored element of a series: every
\* well-formed record, one with an unparsable timestamp, one without a price.
Records ==
  [timestamp : RawTimestamps \ {0}, price : PriceLevels]
    \cup {[timestamp |-> 0, price |-> 100], [timestamp |-> 1, price |-> NoPrice]}
\* A newTrade event of the socket.
Ticks == {[symbol |-> s, timestamp |-> r.timestamp, price |-> r.price] :
            s \in Symbols, r \in Records}
\* The records the historical batches are made of: two representations of
\* one instant, a later instant, an unparsable timestamp.
HistoryRecords ==
  {[timestamp |-> 1, price |-> 100], [timestamp |-> 2, price |-> 103],
   [timestamp |-> 3, price |-> 101], [timestamp |-> 0, price |-> 100]}
HistoryBatches == UNION {[1..n -> HistoryRecords] : n \in 0..MaxBatch}

\* The small alphabet used where the session's interleavings are explored.
SessionRecords == {[timestamp |-> 1, price |-> 100], [timestamp |-> 3, price |-> 103]}
SessionTicks == {t \in Ticks : [timestamp |-> t.timestamp, price |-> t.price] \in SessionRecords}
SessionBatches ==
  {<<>>,
   <<[timestamp |-> 3, price |-> 103]>>,
   <<[timestamp |-> 1, price |-> 100], [timestamp |-> 3, price |-> 103]>>,
   <<[timestamp |-> 3, price |-> 103], [timestamp |-> 1, price |-> 100]>>}

\* new Date(raw).getTime(): raw 0 is unparsable; raws 2k-1 and 2k are two
\* representations (an ISO string, an epoch number) of the same instant k.
getTime(raw) == IF raw = 0 THEN NaN ELSE (raw + 1) \div 2

\* JavaScript a - b on numbers, undefined and NaN.
Sub(a, b) == IF a = NoPrice \/ b = NoPrice \/ a = NaN \/ b = NaN THEN NaN ELSE a - b
\* Math.abs(x) < e: false when x is NaN.
AbsLt(x, e) == x # NaN /\ (IF x < 0 THEN 0 - x ELSE x) < e

\* The stored object of a tick: the fields the program reads afterwards.
Rec(trade) == [timestamp |-> trade.timestamp, price |-> trade.price]

\* ---------------------------------------------------------------- cleanData
\* The comparator (a, b) => new Date(a.timestamp) - new Date(b.timestamp);
\* sort reads a NaN result as +0.
dateCompare(a, b) ==
  LET d == Sub(getTime(a.timestamp), getTime(b.timestamp))
  IN IF d = NaN THEN 0 ELSE d

\* A comparator is consistent when "compares equal" is transitive: here, when
\* no timestamp is NaN or all the others are one instant.  With an inconsistent
\* comparator the order sort produces is implementation-defined.
ConsistentOn(s) ==
  \/ \A i \in 1..Len(s) : getTime(s[i].timestamp) # NaN
  \/ \A i, j \in 1..Len(s) : dateCompare(s[i], s[j]) = 0

\* x put into the sorted t behind every element that does not compare greater.
RECURSIVE insertStable(_, _)
insertStable(t, x) ==
  IF Len(t) = 0 THEN <<x>>
  ELSE IF dateCompare(t[Len(t)], x) <= 0 THEN Append(t, x)
  ELSE Append(insertStable(SubSeq(t, 1, Len(t) - 1), x), t[Len(t)])

RECURSIVE stableSort(_)
stableSort(s) ==
  IF Len(s) = 0 THEN <<>>
  ELSE insertStable(stableSort(SubSeq(s, 1, Len(s) - 1)), s[Len(s)])

Reorder(s, p) == [i \in 1..Len(s) |-> s[p[i]]]

\* [...trades].sort(dateCompare): the results a build can produce.  The sort
\* is stable, so a consistent comparator has exactly one result.
sortByDate(s) ==
  IF ConsistentOn(s)
  THEN {stableSort(s)}
  ELSE {Reorder(s, p) : p \in Permutations(1..Len(s))}

\* seen.set(time, trade) over the sorted trades, then Array.from(seen.values()):
\* a Map keeps a key at the place of its first insertion and the value of its
\* last; NaN is one key (SameValueZero).
RECURSIVE mapValues(_, _)
mapValues(sorted, i) ==
  IF i > Len(sorted) THEN <<>>
  ELSE LET time == getTime(sorted[i].timestamp)
           first == \A j \in 1..(i - 1) : getTime(sorted[j].timestamp) # time
           lastIdx == CHOOSE j \in i..Len(sorted) :
                        /\ getTime(sorted[j].timestamp) = time
                        /\ \A k \in (j + 1)..Len(sorted) :
                             getTime(sorted[k].timestamp) # time
       IN IF first THEN <<sorted[lastIdx]>> \o mapValues(sorted, i + 1)
          ELSE mapValues(sorted, i + 1)

\* cleanData(trades): the set of arrays it can return.
cleanData(trades) ==
  UNION {sortByDate(mapValues(sorted, 1)) : sorted \in sortByDate(trades)}

\* rows: cleanData(...).map(trade => ({...trade, timestamp: getTime})).
rowsOf(series) ==
  {[i \in 1..Len(c) |-> [timestamp |-> getTime(c[i].timestamp), price |-> c[i].price]] :
     c \in cleanData(series)}

\* ------------------------------------------------------------ isMarketOpen
\* Clock readings (day of week, hour, minute) the sampling may see.
ClockSamples ==
  {<<0, 10, 0>>, <<6, 10, 0>>, <<1, 8, 59>>, <<1, 9, 0>>, <<3, 12, 15>>,
   <<5, 15, 30>>, <<5, 15, 31>>, <<2, 16, 0>>}

isMarketOpen(now) ==
  LET day == now[1]
      hour == now[2]
      minute == now[3]
      isAfterOpen == hour > 9 \/ (hour = 9 /\ minute >= 0)
      isBeforeClose == hour < 15 \/ (hour = 15 /\ minute <= 30)
  IN IF day = 0 \/ day = 6 THEN FALSE ELSE isAfterOpen /\ isBeforeClose

\* -------------------------------------------------------------------- state
VARIABLES
  selected,      \* useState: the selected symbol
  dataBySymbol,  \* useState: symbol -> stored series (<<>> also for an absent key)
  marketIsOpen,  \* useState: the last sample of isMarketOpen()
  deltaRef,      \* deltaRef.current, the delta indicator
  socketRef,     \* socketRef.current: "null" or "socket"
  openConns,     \* connections made by io(API) and not disconnected
  joined,        \* symbols for which joinStock was emitted on the open connection
  handlers,      \* captured symbols of the onTick closures registered for newTrade
  eff,           \* the dependencies the effects last ran with
  inflight,      \* symbol -> history requests issued and not settled
  mounted,       \* the component is mounted
  rows,          \* the rows of the last render
  lastOp         \* the branch taken by the last step

vars == <<selected, dataBySymbol, marketIsOpen, deltaRef, socketRef, openConns,
          joined, handlers, eff, inflight, mounted, rows, lastOp>>

\* prev[selected] || []
Get(prev, sym) == prev[sym]
\* { ...prev, [selected]: series }
Put(prev, sym, series) == [prev EXCEPT ![sym] = series]

\* ------------------------------------------------------------------- onTick
\* newTimestamp.getTime() === new Date(lastTrade.timestamp).getTime()
sameTimestamp(trade, lastTrade) ==
  /\ getTime(trade.timestamp) # NaN
  /\ getTime(trade.timestamp) = getTime(lastTrade.timestamp)

\* The comparison without its tolerance: trade.price === lastTrade.price.
priceUnchangedExact(trade, lastTrade) == trade.price = lastTrade.price

\* Math.abs(trade.price - lastTrade.price) < 0.001
priceUnchanged(trade, lastTrade) == AbsLt(Sub(trade.price, lastTrade.price), Eps)

\* deltaRef.current = trade.price - lastTrade.price, when the tail is replaced
replaceDelta(trade, cur) == Sub(trade.price, cur[Len(cur)].price)

\* The difference with its operands exchanged: lastTrade.price - trade.price.
appendDeltaSwapped(trade, cur) == Sub(cur[Len(cur)].price, trade.price)

\* deltaRef.current = trade.price - lastTrade.price, when the trade is appended
appendDelta(trade, cur) == Sub(trade.price, cur[Len(cur)].price)

\* The delta left where it was when the series is empty.
firstDeltaKept == deltaRef

\* deltaRef.current = 0, when the series is empty
firstDelta == 0

\* The updater passed to setDataBySymbol by the handler whose closure holds
\* sym, with the write to deltaRef it makes: the new state, the new delta and
\* the branch taken.
onTick(prev, delta, sym, trade) ==
  LET cur == Get(prev, sym) IN
  IF Len(cur) = 0
  THEN [data |-> Put(prev, sym, <<Rec(trade)>>), delta |-> firstDelta,
        branch |-> "first"]
  ELSE LET lastTrade == cur[Len(cur)] IN
       IF sameTimestamp(trade, lastTrade)
       THEN IF priceUnchanged(trade, lastTrade)
            THEN [data |-> prev, delta |-> delta, branch |-> "ignore"]
            ELSE [data |-> Put(prev, sym, SubSeq(cur, 1, Len(cur) - 1) \o <<Rec(trade)>>),
                  delta |-> replaceDelta(trade, cur), branch |-> "replace"]
       ELSE [data |-> Put(prev, sym, Append(cur, Rec(trade))),
             delta |-> appendDelta(trade, cur), branch |-> "append"]

\* ------------------------------------------------------------ history fetch
\* The delta the .then callback leaves: set from the last two elements of
\* res.data as delivered, when there are two.
historyDelta(delta, data) ==
  IF Len(data) >= 2
  THEN Sub(data[Len(data)].price, data[Len(data) - 1].price)
  ELSE delta

\* ------------------------------------------------------------------ actions
Init ==
  /\ selected = INITIAL_STOCKS[1]
  /\ dataBySymbol = [s \in Symbols |-> <<>>]
  /\ marketIsOpen \in {isMarketOpen(now) : now \in ClockSamples}
  /\ deltaRef = 0
  /\ socketRef = "null"
  /\ openConns = 0
  /\ joined = {}
  /\ handlers = {}
  /\ eff = [ran |-> FALSE, selected |-> INITIAL_STOCKS[1], marketIsOpen |-> FALSE]
  /\ inflight = [s \in Symbols |-> 0]
  /\ mounted = TRUE
  /\ rows = <<>>
  /\ lastOp = "init"

\* A committed render whose effects have not run yet.
EffectsPending ==
  /\ mounted
  /\ \/ ~eff.ran
     \/ eff.selected # selected
     \/ eff.marketIsOpen # marketIsOpen

\* The handlers left by the cleanup of the socket effect's last run.
cleanupHandlers ==
  IF eff.ran /\ eff.marketIsOpen /\ socketRef # "null"
  THEN handlers \ {eff.selected}
  ELSE handlers

\* An open market that connects and listens without emitting joinStock.
connectWithoutJoin ==
  /\ socketRef' = "socket"
  /\ openConns' = IF socketRef = "null" THEN openConns + 1 ELSE openConns
  /\ joined' = joined
  /\ handlers' = cleanupHandlers \cup {selected}

\* An open market that calls io(API) on every run of the effect.
connectAnew ==
  /\ socketRef' = "socket"
  /\ openConns' = openConns + 1
  /\ joined' = {selected}
  /\ handlers' = {selected}

\* The socket effect with the market open: io(API) when there is no socket,
\* emit("joinStock", selected), on("newTrade", onTick).
connectAndJoin ==
  /\ socketRef' = "socket"
  /\ openConns' = IF socketRef = "null" THEN openConns + 1 ELSE openConns
  /\ joined' = joined \cup {selected}
  /\ handlers' = cleanupHandlers \cup {selected}

\* A closed market that leaves the socket as it is.
disconnectSkipped ==
  /\ handlers' = cleanupHandlers
  /\ UNCHANGED <<socketRef, openConns, joined>>

\* The socket effect with the market closed: disconnect() and
\* socketRef.current = null when there is a socket.
disconnect ==
  /\ socketRef' = "null"
  /\ openConns' = IF socketRef = "null" THEN openConns ELSE openConns - 1
  /\ joined' = IF socketRef = "null" THEN joined ELSE {}
  /\ handlers' = IF socketRef = "null" THEN cleanupHandlers ELSE {}

\* Effects are passive: they run in a step of their own after the render that
\* scheduled them, and events may arrive in between (the handlers registered
\* then are those of the previous run).
\* The effects of the last render run: the cleanup of the socket effect's
\* previous run, the mount effect on the first run, the fetch effect when
\* selected changed, the socket effect when selected or marketIsOpen changed.
FlushEffects ==
  /\ EffectsPending
  /\ IF eff.ran
     THEN UNCHANGED marketIsOpen
     ELSE marketIsOpen' \in {isMarketOpen(now) : now \in ClockSamples}
  /\ inflight' = IF ~eff.ran \/ eff.selected # selected
                 THEN [inflight EXCEPT ![selected] = @ + 1]
                 ELSE inflight
  /\ IF marketIsOpen THEN connectAndJoin ELSE disconnect
  /\ eff' = [ran |-> TRUE, selected |-> selected, marketIsOpen |-> marketIsOpen]
  /\ lastOp' = "flush"
  /\ UNCHANGED <<selected, dataBySymbol, deltaRef, mounted, rows>>

\* onClick of a selector button: setSelected(sym).  The effects of the
\* previous render run before the next render.
Select(sym) ==
  /\ mounted
  /\ ~EffectsPending
  /\ sym # selected
  /\ inflight[INITIAL_STOCKS[1]] + inflight[INITIAL_STOCKS[2]] < MaxInFlight
  /\ selected' = sym
  /\ rows' \in rowsOf(Get(dataBySymbol, sym))
  /\ lastOp' = "select"
  /\ UNCHANGED <<dataBySymbol, marketIsOpen, deltaRef, socketRef, openConns,
                 joined, handlers, eff, inflight, mounted>>

\* The interval callback: setMarketIsOpen(isMarketOpen()), with a new value.
SampleMarket(now) ==
  /\ mounted
  /\ eff.ran
  /\ ~EffectsPending
  /\ isMarketOpen(now) # marketIsOpen
  /\ marketIsOpen' = isMarketOpen(now)
  /\ lastOp' = "sample"
  /\ UNCHANGED <<selected, dataBySymbol, deltaRef, socketRef, openConns, joined,
                 handlers, eff, inflight, mounted, rows>>

\* The .then callback of the request issued for sym, with res.data = data.
\* After unmount the state update is dropped and the ref is still written.
FetchResolve(sym, data) ==
  /\ inflight[sym] > 0
  /\ inflight' = [inflight EXCEPT ![sym] = @ - 1]
  /\ deltaRef' = historyDelta(deltaRef, data)
  /\ IF mounted
     THEN /\ dataBySymbol' = Put(dataBySymbol, sym, data)
          /\ rows' \in rowsOf(Get(dataBySymbol', selected))
     ELSE UNCHANGED <<dataBySymbol, rows>>
  /\ lastOp' = "fetchOk"
  /\ UNCHANGED <<selected, marketIsOpen, socketRef, openConns, joined, handlers,
                 eff, mounted>>

\* A .catch callback that clears the series of the symbol it was issued for.
FetchRejectClearing(sym) ==
  /\ inflight[sym] > 0
  /\ inflight' = [inflight EXCEPT ![sym] = @ - 1]
  /\ dataBySymbol' = Put(dataBySymbol, sym, <<>>)
  /\ rows' \in rowsOf(Get(dataBySymbol', selected))
  /\ lastOp' = "fetchErr"
  /\ UNCHANGED <<selected, marketIsOpen, deltaRef, socketRef, openConns, joined,
                 handlers, eff, mounted>>

\* The .catch callback of the request issued for sym.
FetchReject(sym) ==
  /\ inflight[sym] > 0
  /\ inflight' = [inflight EXCEPT ![sym] = @ - 1]
  /\ lastOp' = "fetchErr"
  /\ UNCHANGED <<selected, dataBySymbol, marketIsOpen, deltaRef, socketRef,
                 openConns, joined, handlers, eff, mounted, rows>>

\* A newTrade event on the open connection.  The registered handler whose
\* closure holds trade.symbol passes its first line and updates the state.
Deliver(trade) ==
  /\ socketRef = "socket"
  /\ IF trade.symbol \in handlers
     THEN LET r == onTick(dataBySymbol, deltaRef, trade.symbol, trade) IN
          /\ Len(Get(r.data, trade.symbol)) <= MaxLen
          /\ dataBySymbol' = r.data
          /\ deltaRef' = r.delta
          /\ lastOp' = r.branch
          /\ IF r.branch = "ignore"
             THEN UNCHANGED rows
             ELSE rows' \in rowsOf(Get(r.data, selected))
     ELSE /\ lastOp' = "drop"
          /\ UNCHANGED <<dataBySymbol, deltaRef, rows>>
  /\ UNCHANGED <<selected, marketIsOpen, socketRef, openConns, joined, handlers,
                 eff, inflight, mounted>>

\* Unmount: the cleanups of the effects run (clearInterval, off).
Unmount ==
  /\ mounted
  /\ mounted' = FALSE
  /\ handlers' = cleanupHandlers
  /\ lastOp' = "unmount"
  /\ UNCHANGED <<selected, dataBySymbol, marketIsOpen, deltaRef, socketRef,
                 openConns, joined, eff, inflight, rows>>

Next ==
  \/ FlushEffects
  \/ \E sym \in Symbols : Select(sym)
  \/ \E now \in ClockSamples : SampleMarket(now)
  \/ \E sym \in Symbols, data \in SessionBatches : FetchResolve(sym, data)
  \/ \E sym \in Symbols : FetchReject(sym)
  \/ \E trade \in SessionTicks : Deliver(trade)
  \/ Unmount

Spec == Init /\ [][Next]_vars

\* The session where the effects of a committed render do run: React runs them
\* once the render has committed.
SpecLive == Spec /\ WF_vars(FlushEffects)

\* The reconciliation of one symbol's data, over the full alphabet of records:
\* from the state after the first effects ran with the market open, the history
\* request of the initial symbol in flight.
InitData ==
  /\ selected = INITIAL_STOCKS[1]
  /\ dataBySymbol = [s \in Symbols |-> <<>>]
  /\ marketIsOpen = TRUE
  /\ deltaRef = 0
  /\ socketRef = "socket"
  /\ openConns = 1
  /\ joined = {INITIAL_STOCKS[1]}
  /\ handlers = {INITIAL_STOCKS[1]}
  /\ eff = [ran |-> TRUE, selected |-> INITIAL_STOCKS[1], marketIsOpen |-> TRUE]
  /\ inflight = [s \in Symbols |-> IF s = INITIAL_STOCKS[1] THEN 1 ELSE 0]
  /\ mounted = TRUE
  /\ rows = <<>>
  /\ lastOp = "flush"

NextData ==
  \/ \E data \in HistoryBatches : FetchResolve(selected, data)
  \/ \E trade \in Ticks : Deliver(trade)

SpecData == InitData /\ [][NextData]_vars

\* ------------------------------------------------------------------ claims
\* What the claims speak of, stated without the operators of the code.

\* a < b on timestamps: false when either is NaN.
TsLess(a, b) == a # NaN /\ b # NaN /\ a < b

\* Strictly increasing in timestamp, on raw timestamps: every element has an
\* instant, and each is earlier than the next.
StrictlyIncreasing(series) ==
  /\ \A i \in 1..Len(series) : getTime(series[i].timestamp) # NaN
  /\ \A i \in 1..(Len(series) - 1) :
       getTime(series[i].timestamp) < getTime(series[i + 1].timestamp)

\* A record with a price and a timestamp that parses.
WellFormed(r) == r.price # NoPrice /\ getTime(r.timestamp) # NaN

\* The instants of a batch, and the record of it that arrived last for one.
InstantsOf(batch) == {getTime(batch[i].timestamp) : i \in 1..Len(batch)}
LastArrived(batch, instant) ==
  batch[CHOOSE i \in 1..Len(batch) :
          /\ getTime(batch[i].timestamp) = instant
          /\ \A j \in (i + 1)..Len(batch) : getTime(batch[j].timestamp) # instant]

\* The rendered rows are the seeded series of the batch stored for the
\* selected symbol: strictly increasing, one row per instant, the last arrival.
SeededFrom(batch) ==
  /\ \A k \in 1..(Len(rows) - 1) : TsLess(rows[k].timestamp, rows[k + 1].timestamp)
  /\ Len(rows) = Cardinality(InstantsOf(batch))
  /\ \A k \in 1..Len(rows) :
       /\ rows[k].timestamp \in InstantsOf(batch)
       /\ rows[k].price = LastArrived(batch, rows[k].timestamp).price

\* The series the tick's handler works on, and its tail.
Cur(trade) == Get(dataBySymbol, trade.symbol)
TailOf(series) == series[Len(series)]

\* The tick is merged: its handler is registered and the step delivers it.
Merges(trade) == trade.symbol \in handlers /\ Deliver(trade)

\* Both prices are numbers and differ by less than 0.001 / by at least 0.001.
PriceWithinEps(p, q) ==
  p # NoPrice /\ q # NoPrice /\ p - q < Eps /\ q - p < Eps
PriceBeyondEps(p, q) ==
  p # NoPrice /\ q # NoPrice /\ (p - q >= Eps \/ q - p >= Eps)

\* Both timestamps parse, to the same instant.
SameInstant(a, b) == getTime(a) # NaN /\ getTime(a) = getTime(b)

\* C1: after the history of the selected symbol arrives, whatever the batch
\* (any order, duplicate timestamps), the series made of it by cleanData is
\* strictly increasing in timestamp, has exactly one entry per distinct
\* timestamp of the batch, and that entry is the batch's last record with
\* that timestamp.
C1_SeedSortedUnique ==
  (mounted /\ lastOp = "fetchOk") => SeededFrom(Get(dataBySymbol, selected))

\* C1, on the batches whose timestamps all parse: there the statement holds.
C1_OnParsableBatches ==
  (/\ mounted
   /\ lastOp = "fetchOk"
   /\ \A i \in 1..Len(Get(dataBySymbol, selected)) :
        getTime(Get(dataBySymbol, selected)[i].timestamp) # NaN)
    => SeededFrom(Get(dataBySymbol, selected))

\* C2: a tick for the selected symbol merged into a series that is strictly
\* increasing in timestamp (the empty one included) leaves the stored series
\* strictly increasing, after every single tick.  Stated on the well-formed
\* ticks, where it fails already.
C2_TicksKeepSeriesIncreasing ==
  [][\A trade \in Ticks :
       (/\ trade.symbol = selected
        /\ WellFormed(trade)
        /\ StrictlyIncreasing(Get(dataBySymbol, selected))
        /\ Merges(trade))
         => StrictlyIncreasing(Get(dataBySymbol', selected))]_vars

\* C3: in every reachable state, for every tick of the selected symbol, onTick
\* applied twice in a row leaves the same series and the same delta as onTick
\* applied once.
C3_MergeIdempotent ==
  \A trade \in Ticks :
    (trade.symbol = selected /\ trade.symbol \in handlers) =>
      LET once == onTick(dataBySymbol, deltaRef, trade.symbol, trade)
          twice == onTick(once.data, once.delta, trade.symbol, trade)
      IN twice.data = once.data /\ twice.delta = once.delta

\* C3, on the well-formed ticks: there the statement holds.
C3_OnWellFormedTicks ==
  \A trade \in Ticks :
    (/\ trade.symbol = selected
     /\ trade.symbol \in handlers
     /\ WellFormed(trade)) =>
      LET once == onTick(dataBySymbol, deltaRef, trade.symbol, trade)
          twice == onTick(once.data, once.delta, trade.symbol, trade)
      IN twice.data = once.data /\ twice.delta = once.delta

\* C4: a merge of a tick whose timestamp is strictly greater than the tail's,
\* on a non-empty series, appends the tick, and the delta then is the price
\* of the new tail minus the price of the element right before it.
C4_AppendDelta ==
  [][\A trade \in Ticks :
       (/\ Len(Cur(trade)) > 0
        /\ TsLess(getTime(TailOf(Cur(trade)).timestamp), getTime(trade.timestamp))
        /\ Merges(trade))
         => LET new == Get(dataBySymbol', trade.symbol) IN
            /\ new = Append(Cur(trade), Rec(trade))
            /\ deltaRef' = Sub(new[Len(new)].price, new[Len(new) - 1].price)]_vars

\* C4's case: a tick later than the tail was appended and moved the delta.
C4_Witness ==
  LET series == Get(dataBySymbol, selected) IN
  /\ lastOp = "append"
  /\ Len(series) >= 2
  /\ TsLess(getTime(series[Len(series) - 1].timestamp),
            getTime(series[Len(series)].timestamp))
  /\ deltaRef = 3

\* C5: a merge of a tick with the tail's timestamp and a price at least 0.001
\* away from the tail's replaces the tail by the tick, and the delta then is
\* the price of the new tail minus the price of the element below it, and 0
\* when the corrected tail is the only element.
C5_CorrectionDelta ==
  [][\A trade \in Ticks :
       (/\ Len(Cur(trade)) > 0
        /\ SameInstant(trade.timestamp, TailOf(Cur(trade)).timestamp)
        /\ PriceBeyondEps(trade.price, TailOf(Cur(trade)).price)
        /\ Merges(trade))
         => LET new == Get(dataBySymbol', trade.symbol) IN
            /\ new = SubSeq(Cur(trade), 1, Len(Cur(trade)) - 1) \o <<Rec(trade)>>
            /\ deltaRef' = IF Len(new) = 1 THEN 0
                           ELSE Sub(new[Len(new)].price, new[Len(new) - 1].price)]_vars

\* C6: a tick for the selected symbol whose timestamp is strictly less than
\* the tail's, on a non-empty series, is discarded: the stored series and the
\* delta stay as they were.  Stated on the well-formed ticks, where it fails
\* already.
C6_LateTickDiscarded ==
  [][\A trade \in Ticks :
       (/\ trade.symbol = selected
        /\ WellFormed(trade)
        /\ Len(Cur(trade)) > 0
        /\ TsLess(getTime(trade.timestamp), getTime(TailOf(Cur(trade)).timestamp))
        /\ Merges(trade))
         => UNCHANGED <<dataBySymbol, deltaRef>>]_vars

\* C7: a tick for the selected symbol with the tail's timestamp and a price
\* less than 0.001 away from the tail's is a duplicate delivery: the stored
\* series and the delta stay as they were.
C7_DuplicateIgnored ==
  [][\A trade \in Ticks :
       (/\ trade.symbol = selected
        /\ Len(Cur(trade)) > 0
        /\ SameInstant(trade.timestamp, TailOf(Cur(trade)).timestamp)
        /\ PriceWithinEps(trade.price, TailOf(Cur(trade)).price)
        /\ Merges(trade))
         => UNCHANGED <<dataBySymbol, deltaRef>>]_vars

\* C7's case: a tick was taken as a duplicate of the tail, with a delta shown.
C7_Witness ==
  /\ lastOp = "ignore"
  /\ Len(Get(dataBySymbol, selected)) >= 1
  /\ deltaRef # 0

\* C8: a tick of any symbol delivered while the history request of the
\* selected symbol is in flight changes neither the series being seeded nor
\* the delta, and when the request succeeds the series is the batch.
C8_TicksSuppressedWhileLoading ==
  [][/\ \A trade \in SessionTicks :
          (Deliver(trade) /\ inflight[selected] > 0)
            => UNCHANGED <<Get(dataBySymbol, selected), deltaRef>>
     /\ \A data \in SessionBatches :
          (FetchResolve(selected, data) /\ mounted)
            => Get(dataBySymbol', selected) = data]_vars

\* C9: the result of a history request issued for a symbol that is no longer
\* the selected one changes neither the series of the selected symbol nor the
\* delta shown for it.
C9_StaleFetchDiscarded ==
  [][\A sym \in Symbols, data \in SessionBatches :
       (FetchResolve(sym, data) /\ mounted /\ sym # selected)
         => UNCHANGED <<Get(dataBySymbol, selected), deltaRef>>]_vars

\* C10: in every reachable state no series of any symbol holds a malformed
\* record (a missing price, an unparsable timestamp), from a batch or a tick.
C10_NoMalformedRecord ==
  \A sym \in Symbols :
    \A i \in 1..Len(Get(dataBySymbol, sym)) : WellFormed(Get(dataBySymbol, sym)[i])

\* The step is a merge of the tick by onTick, not a drop.
MergedByOnTick(trade) ==
  LET r == onTick(dataBySymbol, deltaRef, trade.symbol, trade) IN
  /\ lastOp' = r.branch
  /\ dataBySymbol' = r.data
  /\ deltaRef' = r.delta

\* C11: a failed history request leaves the series of every symbol and the
\* delta exactly as they were, and a tick for the selected symbol delivered
\* after the failure, the market open, is still merged.
C11_FetchFailureLeavesState ==
  [][/\ \A sym \in Symbols :
          FetchReject(sym) => UNCHANGED <<dataBySymbol, deltaRef>>
     /\ \A trade \in SessionTicks :
          (/\ lastOp = "fetchErr"
           /\ mounted
           /\ marketIsOpen
           /\ ~EffectsPending
           /\ trade.symbol = selected
           /\ Deliver(trade))
            => MergedByOnTick(trade)]_vars

\* C11's case: the request of the selected symbol failed over a series and a
\* delta that ticks had made, the handler of the selected symbol registered.
C11_Witness ==
  /\ lastOp = "fetchErr"
  /\ mounted
  /\ inflight[selected] = 0
  /\ Len(Get(dataBySymbol, selected)) = 2
  /\ deltaRef = 3
  /\ socketRef = "socket"
  /\ selected \in handlers

\* C12: in every reachable state, if the series of the selected symbol has
\* fewer than two points then the delta is 0.
C12_DeltaNeutralBelowTwoPoints ==
  (mounted /\ Len(Get(dataBySymbol, selected)) < 2) => deltaRef = 0

\* The latest instant of a set of instants.
Latest(instants) == CHOOSE m \in instants : \A n \in instants : n <= m

\* The price of the chronologically last point of a batch minus the price of
\* the chronologically second-to-last, each instant taken at its last arrival.
ChronologicalDelta(batch) ==
  LET last == Latest(InstantsOf(batch))
      before == Latest(InstantsOf(batch) \ {last})
  IN Sub(LastArrived(batch, last).price, LastArrived(batch, before).price)

\* C13: after the history of the selected symbol arrives with at least two
\* distinct timestamps, in any order and with duplicates, the delta is the
\* price of the chronologically last point minus the price of the
\* chronologically second-to-last point of the sorted, deduplicated series.
\* Stated on the batches of well-formed records, where it fails already.
C13_HistoryDeltaChronological ==
  LET batch == Get(dataBySymbol, selected) IN
  (/\ mounted
   /\ lastOp = "fetchOk"
   /\ \A i \in 1..Len(batch) : WellFormed(batch[i])
   /\ Cardinality(InstantsOf(batch)) >= 2)
    => deltaRef = ChronologicalDelta(batch)

\* C14: a tick for the selected symbol merged into an empty series makes the
\* series exactly the one-element sequence holding the tick and the delta 0,
\* whatever the delta was.
C14_FirstTickSeedsSeries ==
  [][\A trade \in Ticks :
       (/\ trade.symbol = selected
        /\ Len(Cur(trade)) = 0
        /\ Merges(trade))
         => /\ Get(dataBySymbol', selected) = <<Rec(trade)>>
            /\ deltaRef' = 0]_vars

\* C14's case: after the history had arrived, a tick found the series of the
\* selected symbol empty and became its only element.
C14_Witness ==
  /\ lastOp = "first"
  /\ inflight[selected] = 0
  /\ Len(Get(dataBySymbol, selected)) = 1
  /\ WellFormed(Get(dataBySymbol, selected)[1])
  /\ deltaRef = 0

\* C15: in every reachable state, right after a symbol switch included, a
\* delivered tick whose symbol is not the selected one changes no series and
\* not the delta.
C15_OtherSymbolTickIgnored ==
  [][\A trade \in SessionTicks :
       (/\ mounted
        /\ trade.symbol # selected
        /\ Deliver(trade))
         => UNCHANGED <<dataBySymbol, deltaRef>>]_vars

\* C15, once the effects of the render that switched the symbol have run:
\* there the statement holds.
C15_OnceEffectsRan ==
  [][\A trade \in SessionTicks :
       (/\ mounted
        /\ ~EffectsPending
        /\ trade.symbol # selected
        /\ Deliver(trade))
         => UNCHANGED <<dataBySymbol, deltaRef>>]_vars

\* C16: whenever the sampled market state is closed and the effects of that
\* sample have run, no connection is open and no tick handler is registered,
\* so no step merges a tick.
C16_ClosedMarketNoFeed ==
  (mounted /\ eff.ran /\ ~EffectsPending /\ ~marketIsOpen)
    => /\ socketRef = "null"
       /\ openConns = 0
       /\ handlers = {}
       /\ ~ENABLED (\E trade \in SessionTicks : Merges(trade))

\* C16's case: the market was sampled closed after a tick had been merged on
\* the open connection, and the effects of the sample have run.
C16_Witness ==
  /\ lastOp = "flush"
  /\ mounted
  /\ ~EffectsPending
  /\ ~marketIsOpen
  /\ socketRef = "null"
  /\ Get(dataBySymbol, selected) = <<[timestamp |-> 1, price |-> 100]>>

\* C17: when the sampled market state flips from closed to open, the effect
\* run that follows connects, emits a join for the selected symbol and
\* registers its handler; from then on a delivered tick of the selected symbol
\* is merged.
C17_ReopenReconnectsAndJoins ==
  /\ (mounted /\ eff.ran /\ ~eff.marketIsOpen /\ marketIsOpen)
       ~> (\/ ~mounted
           \/ socketRef = "socket" /\ selected \in joined /\ selected \in handlers)
  /\ [][/\ (eff.ran /\ ~eff.marketIsOpen /\ marketIsOpen /\ FlushEffects)
             => /\ socketRef' = "socket"
                /\ openConns' = 1
                /\ selected \in joined'
                /\ handlers' = {selected}
        /\ \A trade \in SessionTicks :
             (/\ mounted
              /\ eff.ran
              /\ marketIsOpen
              /\ ~EffectsPending
              /\ trade.symbol = selected
              /\ Deliver(trade))
               => MergedByOnTick(trade)]_vars

\* C17's case: the connection was opened with the second symbol selected, so
\* after a closed market turned open, and a tick of that symbol was merged.
C17_Witness ==
  /\ lastOp = "first"
  /\ mounted
  /\ marketIsOpen
  /\ ~EffectsPending
  /\ selected = INITIAL_STOCKS[2]
  /\ joined = {selected}
  /\ handlers = {selected}
  /\ Get(dataBySymbol, selected) = <<[timestamp |-> 1, price |-> 100]>>

\* C18: at most one connection is open at any time, and the effect run that
\* follows a symbol switch with the market open opens no connection: it
\* emits a join for the new symbol on the connection there is.
C18_OneSharedConnection ==
  /\ [](openConns <= 1)
  /\ [][(/\ eff.ran
         /\ eff.marketIsOpen
         /\ marketIsOpen
         /\ eff.selected # selected
         /\ FlushEffects)
          => /\ socketRef = "socket"
             /\ UNCHANGED <<socketRef, openConns>>
             /\ joined' = joined \cup {selected}]_vars

\* C18's case: with the market open both symbols have been joined, on the
\* one connection.
C18_Witness ==
  /\ lastOp = "flush"
  /\ mounted
  /\ marketIsOpen
  /\ ~EffectsPending
  /\ joined = Symbols
  /\ socketRef = "socket"
  /\ openConns = 1

\* C19: after the component is unmounted no connection remains open, whether
\* the market was open or closed at the time.
C19_UnmountDisconnects ==
  ~mounted => (openConns = 0 /\ socketRef = "null")

\* The rows are strictly increasing in timestamp, so one per timestamp, and
\* each is a record of the series, its timestamp read as an instant.
RowsOutOf(series) ==
  /\ \A k \in 1..(Len(rows) - 1) : TsLess(rows[k].timestamp, rows[k + 1].timestamp)
  /\ \A k \in 1..Len(rows) :
       \E i \in 1..Len(series) :
         /\ getTime(series[i].timestamp) = rows[k].timestamp
         /\ series[i].price = rows[k].price

\* C20: in every reachable state, whatever the order and duplication of the
\* records stored for the selected symbol, the rows handed to the chart are
\* strictly increasing in timestamp with at most one entry per timestamp, and
\* every row is a record of the stored series.
C20_RowsSortedUnique ==
  mounted => RowsOutOf(Get(dataBySymbol, selected))

\* C20, on the stored series whose timestamps all parse: there the statement
\* holds.
C20_OnParsableSeries ==
  (/\ mounted
   /\ \A i \in 1..Len(Get(dataBySymbol, selected)) :
        getTime(Get(dataBySymbol, selected)[i].timestamp) # NaN)
    => RowsOutOf(Get(dataBySymbol, selected))

====
